---- MODULE Spec2Model ----
(***************************************************************************)
(* A model of DataRetriever (src/data_retriever.py): the configuration     *)
(* held by the object and the calls that change it (__init__,              *)
(* set_property, set_base_pv), the concurrent per-signal fetch of          *)
(* getHistory, the boundary extension of get_history, and the trim /       *)
(* bridge / interpolate / resample pipeline of alignHistory.               *)
(*                                                                         *)
(* Time is counted in ticks; TicksPerHour ticks make one hour, so that a   *)
(* datetime is an integer and timedelta(hours=h) is h * TicksPerHour.      *)
(* Sample values are integers; interpolated values are exact rationals     *)
(* <<n, d>> with d > 0, and the pair NaN stands for numpy's nan.           *)
(***************************************************************************)
EXTENDS Integers, Sequences, FiniteSets, TLC

\* ------------------------------------------------------------------ bounds
\* Resolution of the model's clock: ticks per hour.
TicksPerHour == 2
\* Most samples the archive returns over the fetches of one getHistory batch.
MaxSamples == 3

\* ------------------------------------------------------- generic helpers
\* Python None, and a value that may be None: None is <<>>, x is <<x>>.
None == <<>>
Some(x) == <<x>>
The(opt) == opt[1]

Range(s) == {s[i] : i \in DOMAIN s}

Min2(a, b) == IF a <= b THEN a ELSE b
Max2(a, b) == IF a >= b THEN a ELSE b

Abs(a) == IF a < 0 THEN -a ELSE a

RECURSIVE Gcd(_, _)
Gcd(a, b) == IF b = 0 THEN a ELSE Gcd(b, a % b)

\* ceil(a / b) for b > 0
CeilDiv(a, b) == -((-a) \div b)

\* ------------------------------------------------- exact rational values
NaN == <<0, 0>>
IsNaN(r) == r[2] = 0

Rat(n, d) ==
    IF d = 0 THEN NaN
    ELSE LET g == Gcd(Abs(n), Abs(d))
             s == IF d < 0 THEN -1 ELSE 1
         IN  <<(s * n) \div g, (s * d) \div g>>

RInt(v) == <<v, 1>>
RAdd(a, b) == IF IsNaN(a) \/ IsNaN(b) THEN NaN
              ELSE Rat(a[1] * b[2] + b[1] * a[2], a[2] * b[2])
RSub(a, b) == IF IsNaN(a) \/ IsNaN(b) THEN NaN
              ELSE Rat(a[1] * b[2] - b[1] * a[2], a[2] * b[2])
\* a * (p / q) for integers p, q with q > 0
RScale(a, p, q) == IF IsNaN(a) THEN NaN ELSE Rat(a[1] * p, a[2] * q)

\* ------------------------------------------------------ numpy primitives
\* np.insert(arr, i, x) with a 0-based position i
np_insert(arr, i, x) ==
    SubSeq(arr, 1, i) \o <<x>> \o SubSeq(arr, i + 1, Len(arr))

\* np.searchsorted(a, v, side='left') on an ascending array: the number of
\* elements strictly below v.
searchsorted_left(a, v) == Cardinality({i \in DOMAIN a : a[i] < v})

\* np.searchsorted(a, v, side='right'): the number of elements at or below v.
searchsorted_right(a, v) == Cardinality({i \in DOMAIN a : a[i] <= v})

\* np.cumsum
RECURSIVE np_cumsum(_)
np_cumsum(a) ==
    IF Len(a) = 0 THEN <<>>
    ELSE LET front == np_cumsum(SubSeq(a, 1, Len(a) - 1))
         IN  Append(front,
                    (IF Len(front) = 0 THEN 0 ELSE front[Len(front)]) + a[Len(a)])

\* np_arange with the stop value included when the steps reach it.
np_arange_Closed(start, stop, step) ==
    [k \in 1..Max2(0, ((stop - start) \div step) + 1) |-> start + (k - 1) * step]

\* np.arange(start, stop, step) for integers and step > 0:
\* ceil((stop - start) / step) points, none of them reaching stop.
np_arange(start, stop, step) ==
    [k \in 1..Max2(0, CeilDiv(stop - start, step)) |-> start + (k - 1) * step]

\* One point of np.interp(x, xp, fp, left=nan, right=nan) for a non-empty
\* ascending xp (integers) and rational fp.  j is the last position whose
\* xp is at or below x, as numpy's search returns it.
interp_at(x, xp, fp) ==
    LET n == Len(xp)
    IN  IF x < xp[1] \/ x > xp[n] THEN NaN
        ELSE LET j == CHOOSE i \in 1..n :
                          /\ xp[i] <= x
                          /\ \A k \in (i + 1)..n : xp[k] > x
             IN  IF j = n \/ xp[j] = x THEN fp[j]
                 ELSE RAdd(fp[j],
                           RScale(RSub(fp[j + 1], fp[j]), x - xp[j], xp[j + 1] - xp[j]))

np_interp(xs, xp, fp) == [i \in DOMAIN xs |-> interp_at(xs[i], xp, fp)]

\* The results np.argsort(secs) can give, applied to the rows: every
\* arrangement of rows in ascending order of secs.  The default sort kind
\* is not stable, so rows with equal secs may come out in either order.
RECURSIVE SortedArrangements(_)
SortedArrangements(rows) ==
    IF Len(rows) = 0 THEN {<<>>}
    ELSE LET firsts == {i \in DOMAIN rows :
                           \A k \in DOMAIN rows : rows[i].secs <= rows[k].secs}
             without(i) == SubSeq(rows, 1, i - 1) \o SubSeq(rows, i + 1, Len(rows))
         IN  UNION {{<<rows[i]>> \o rest : rest \in SortedArrangements(without(i))}
                      : i \in firsts}

\* arr[mask] for a sequence and a predicate on its elements
RECURSIVE SelectRows(_, _, _)
SelectRows(rows, lo, hi) ==
    IF Len(rows) = 0 THEN <<>>
    ELSE LET rest == SelectRows(Tail(rows), lo, hi)
         IN  IF Head(rows).secs >= lo /\ Head(rows).secs <= hi
             THEN <<Head(rows)>> \o rest
             ELSE rest

\* ------------------------------------------------------ the archive side
\* Values a sample can carry.
Vals == {0, 1000}

\* "EPICS time has 7 hour delay": the offset added to the archive's secs.
timeDiff_sec == 7 * TicksPerHour

\* What the archive answers to one request: ok = FALSE when the response
\* cannot be fetched or parsed (urlopen or json.load raising, an unknown
\* signal), else data is data[0]['data'].
Fail == [ok |-> FALSE, data |-> <<>>]

\* The local timestamps at which the archive may hold a sample for a fetch
\* of [startTime, endTime]: one tick before the earlier bound up to one tick
\* after the later one (startTime is the later one when the duration is
\* negative).
SampleTimes(startTime, endTime) ==
    (Min2(startTime, endTime) - 1)..(Max2(startTime, endTime) + 1)

\* Ascending sequences of at most n local timestamps from ts.
RECURSIVE AscendingSeqs(_, _)
AscendingSeqs(ts, n) ==
    IF n = 0 \/ ts = {} THEN {<<>>}
    ELSE {<<>>} \cup
         UNION {{<<t>> \o rest : rest \in AscendingSeqs({u \in ts : u > t}, n - 1)}
                  : t \in ts}

RECURSIVE ValSeqs(_)
ValSeqs(n) ==
    IF n = 0 THEN {<<>>}
    ELSE UNION {{<<v>> \o rest : rest \in ValSeqs(n - 1)} : v \in Vals}

\* The responses with at most n samples: records {secs, nanos, val} in
\* ascending time order; secs carries secs + nanos/1e9, in the archive's clock.
Responses(startTime, endTime, n) ==
    {Fail} \cup
    UNION {{[ok |-> TRUE,
             data |-> [i \in DOMAIN ts |->
                          [secs |-> ts[i] - timeDiff_sec, val |-> vs[i]]]]
              : vs \in ValSeqs(Len(ts))}
             : ts \in AscendingSeqs(SampleTimes(startTime, endTime), n)}

\* ------------------------------------------------------------ get_history
\* Lines 252-253: the two arrays built from the response.
resp_secs(resp) == [i \in DOMAIN resp.data |-> resp.data[i].secs + timeDiff_sec]
resp_vals(resp) == [i \in DOMAIN resp.data |-> resp.data[i].val]

\* Lines 260-264: value of the point added at startTime.
start_val(secs, vals, start_time_ts) ==
    LET start_index == searchsorted_left(secs, start_time_ts)
    IN  IF start_index = 0 THEN vals[1] ELSE vals[start_index]

\* Lines 267-271: value of the point added at endTime.
end_val(secs, vals, end_time_ts) ==
    LET end_index == searchsorted_right(secs, end_time_ts)
    IN  IF end_index = Len(secs) THEN vals[Len(vals)] ELSE vals[end_index + 1]

\* Lines 274-277: the arrays with the two points inserted, as rows.
with_bounds(secs, vals, start_time_ts, end_time_ts) ==
    LET start_index == searchsorted_left(secs, start_time_ts)
        end_index   == searchsorted_right(secs, end_time_ts)
        rows  == [i \in DOMAIN secs |-> [secs |-> secs[i], vals |-> vals[i]]]
        rows1 == np_insert(rows, start_index,
                           [secs |-> start_time_ts,
                            vals |-> start_val(secs, vals, start_time_ts)])
    IN  np_insert(rows1, end_index + 1,
                  [secs |-> end_time_ts,
                   vals |-> end_val(secs, vals, end_time_ts)])

\* Lines 285-287: keep the rows inside [startTime, endTime].
in_window(rows, start_time_ts, end_time_ts) ==
    SelectRows(rows, start_time_ts, end_time_ts)

\* A task's data, and the pandas DataFrame line 230 makes of it, is the set
\* of its columns and the sequence of its rows [secs, vals].  {} and
\* pd.DataFrame({}) have no column and no row; a fetch whose rows all fall
\* outside the window has the two columns and no row.
EmptyFrame == [columns |-> {}, rows |-> <<>>]
FrameOf(rows) == [columns |-> {"secs", "vals"}, rows |-> rows]

\* The (data, error) pairs one call of get_history can return for a
\* response.  startTime = None makes line 246 raise outside the try block:
\* that case is guarded by the callers.  A failed fetch, or an empty data
\* array (vals[0] raises inside the try block), gives ({}, warning).
get_history(resp, startTime, endTime) ==
    IF ~resp.ok THEN {[data |-> EmptyFrame, error |-> TRUE]}
    ELSE IF Len(resp.data) = 0 THEN {[data |-> EmptyFrame, error |-> TRUE]}
    ELSE LET secs == resp_secs(resp)
             vals == resp_vals(resp)
         IN  {[data |-> FrameOf(in_window(sorted, startTime, endTime)),
               error |-> FALSE]
                : sorted \in SortedArrangements(
                                 with_bounds(secs, vals, startTime, endTime))}

\* ------------------------------------------------------------- containers

\* self.__rawData is the list [] after construction, a list of task results
\* while getHistory runs, and a dict pv -> DataFrame afterwards.  A dict is
\* the sequence of its (key, value) items in insertion order.
ListOf(items) == [type |-> "list", items |-> items]
DictOf(items) == [type |-> "dict", items |-> items]

DictKeys(d) == {d.items[i].key : i \in DOMAIN d.items}
DictValue(d, k) == d.items[CHOOSE i \in DOMAIN d.items : d.items[i].key = k].value

\* Python truth value of self.__rawData
Truthy(container) == Len(container.items) > 0

\* d[key] = value on the items of a dict: the value of an existing key is
\* replaced where it stands, a new key is added at the end.
dict_set(items, key, value) ==
    IF \E i \in DOMAIN items : items[i].key = key
    THEN [i \in DOMAIN items |->
             IF items[i].key = key THEN [key |-> key, value |-> value] ELSE items[i]]
    ELSE Append(items, [key |-> key, value |-> value])

\* The items of the dict a comprehension builds from (key, value) pairs,
\* taken in order: a repeated key keeps one item, with the last value.
RECURSIVE dict_items(_)
dict_items(pairs) ==
    IF Len(pairs) = 0 THEN <<>>
    ELSE dict_set(dict_items(SubSeq(pairs, 1, Len(pairs) - 1)),
                  pairs[Len(pairs)].key, pairs[Len(pairs)].value)

\* Line 230: {pv: pd.DataFrame(data) for pv, data in zip(pvNames, rawData)}
zip_frames(names, datas) ==
    DictOf(dict_items([i \in 1..Min2(Len(names), Len(datas)) |->
                          [key |-> names[i], value |-> datas[i]]]))

\* ------------------------------------------------------------ alignHistory
\* Line 310: the record alignHistory starts from.
syn_placeholder ==
    [type |-> "dict", startTime |-> None, relTime |-> <<>>, vals |-> <<>>,
     duration_hour |-> None]

frame_secs(frame) == [i \in DOMAIN frame.rows |-> frame.rows[i].secs]
frame_vals(frame) == [i \in DOMAIN frame.rows |-> frame.rows[i].vals]

\* Line 315: relTime = timeRange - timeRange.iloc[0]
rel_time(secs) == [i \in DOMAIN secs |-> secs[i] - secs[1]]

\* Lines 323-330: the keep-mask, the OR over the configured ranges.
in_some_range(v, val_range) ==
    \E r \in DOMAIN val_range : v >= val_range[r][1] /\ v <= val_range[r][2]

\* Lines 332-333: the ascending positions (1-based) where the mask is true.
RECURSIVE kept_from(_, _, _)
kept_from(vals, val_range, i) ==
    IF i > Len(vals) THEN <<>>
    ELSE (IF in_some_range(vals[i], val_range) THEN <<i>> ELSE <<>>)
         \o kept_from(vals, val_range, i + 1)

kept_indices(vals, val_range) == kept_from(vals, val_range, 1)

\* Line 320: idt = np.arange(len(timeRange))
all_indices(secs) == [i \in DOMAIN secs |-> i]

\* Line 340: the positions (1-based, within idt) that follow a cut.
diff_idt(idt) == {k \in 2..Len(idt) : idt[k] - idt[k - 1] > 1}

\* time_inv with the bridge added to the elapsed gap instead of replacing it.
time_inv_AddBridge(relTime, idt, disTimeAddBack_sec) ==
    [k \in DOMAIN idt |->
        IF k = 1 THEN 0
        ELSE (relTime[idt[k]] - relTime[idt[k - 1]])
             + (IF k \in diff_idt(idt) THEN disTimeAddBack_sec ELSE 0)]

\* Lines 341-343: the step before each kept sample, the bridge at a cut.
time_inv(relTime, idt, disTimeAddBack_sec) ==
    [k \in DOMAIN idt |->
        IF k \in diff_idt(idt) THEN disTimeAddBack_sec
        ELSE IF k = 1 THEN 0
        ELSE relTime[idt[k]] - relTime[idt[k - 1]]]

\* Line 344
time_cum_of(relTime, idt, disTimeAddBack_sec) ==
    np_cumsum(time_inv(relTime, idt, disTimeAddBack_sec))

\* Lines 347-351: the synchronized start time.
syn_start_time(secs, idt) ==
    IF diff_idt(idt) = {} THEN secs[1]
    ELSE secs[CHOOSE k \in diff_idt(idt) : \A m \in diff_idt(idt) : k <= m]

\* ref_times read off the bridged axis (with a bridge of one tick) instead
\* of the reference's own relative time.
ref_times_Bridged(relTime, idt) == time_cum_of(relTime, idt, 1)

\* Line 368: relTime[idt], the reference's relative time at the kept samples.
ref_times(relTime, idt) == [k \in DOMAIN idt |-> relTime[idt[k]]]

\* Lines 359-371: what filling row i of the value matrix does for signal pv:
\* the row, or the exception it raises.  A frame without the 'secs' column
\* raises KeyError at line 363; a frame with the column and no row raises
\* IndexError at line 369 (raw_data['secs'].iloc[0]).
align_row(pv, rawData, alignSetup, relTime, idt) ==
    IF pv \notin DictKeys(rawData) THEN [raised |-> "KeyError"]
    ELSE LET raw_data == DictValue(rawData, pv)
         IN  IF Some(pv) = alignSetup.base_pv
             THEN [raised |-> "none",
                   row |-> [k \in DOMAIN idt |-> RInt(frame_vals(raw_data)[idt[k]])]]
             ELSE IF "secs" \notin raw_data.columns THEN [raised |-> "KeyError"]
             ELSE IF Len(raw_data.rows) = 1
             THEN [raised |-> "none",
                   row |-> [k \in DOMAIN idt |-> RInt(frame_vals(raw_data)[1])]]
             ELSE IF Len(raw_data.rows) = 0 THEN [raised |-> "IndexError"]
             ELSE [raised |-> "none",
                   row |-> np_interp(ref_times(relTime, idt),
                                     rel_time(frame_secs(raw_data)),
                                     [i \in DOMAIN raw_data.rows |->
                                         RInt(frame_vals(raw_data)[i])])]

\* Lines 356-371: the rows in the order of pvNames, up to the first that
\* raises; the rows not reached keep the zeros of np.zeros.
RECURSIVE align_rows(_, _, _, _, _, _)
align_rows(pvNames, i, rawData, alignSetup, relTime, idt) ==
    IF i > Len(pvNames) THEN [raised |-> "none", rows |-> <<>>]
    ELSE LET r == align_row(pvNames[i], rawData, alignSetup, relTime, idt)
             zeros == [k \in DOMAIN idt |-> RInt(0)]
         IN  IF r.raised # "none"
             THEN [raised |-> r.raised,
                   rows |-> [m \in 1..(Len(pvNames) - i + 1) |-> zeros]]
             ELSE LET rest == align_rows(pvNames, i + 1, rawData, alignSetup,
                                         relTime, idt)
                  IN  [raised |-> rest.raised, rows |-> <<r.row>> \o rest.rows]

\* Line 378
resample_axis(time_cum, dtResample_sec) ==
    np_arange(time_cum[1], time_cum[Len(time_cum)], dtResample_sec)

\* Lines 383-386
resample_rows(reSample, time_cum, rows) ==
    [i \in DOMAIN rows |-> np_interp(reSample, time_cum, rows[i])]

\* Lines 391-395: the DataFrame stored at the end, one column per key of
\* syn_data_dict (a repeated signal name keeps one column, its last row).
syn_frame(pvNames, reSample, rows, time_cum) ==
    LET syn_data_dict == dict_items([i \in DOMAIN pvNames |->
                                        [key |-> pvNames[i], value |-> rows[i]]])
    IN  [type |-> "DataFrame", index |-> reSample,
         columns |-> [i \in DOMAIN syn_data_dict |-> syn_data_dict[i].key],
         vals |-> [i \in DOMAIN syn_data_dict |-> syn_data_dict[i].value],
         duration_hour |-> Rat(time_cum[Len(time_cum)], TicksPerHour)]

\* The locals of a call that did not get as far as computing them.
no_locals ==
    [idt |-> <<>>, relTime |-> <<>>, time_cum |-> <<>>, secs |-> <<>>, vals |-> <<>>]

\* Lines 310-396: alignHistory once the raw data is in place.  The result
\* gives the stored synData, the exception raised ("none" when the call
\* returns), whether the DataFrame was produced, and the call's locals
\* (vals is the value matrix of line 373, before resampling).
align_body(pvNames, rawData, alignSetup) ==
    LET stop(err, syn, loc) ==
            [synData |-> syn, raised |-> err, produced |-> FALSE, locals |-> loc]
    IN
    IF rawData.type = "list" THEN stop("TypeError", syn_placeholder, no_locals)
    ELSE IF alignSetup.base_pv = None
    THEN stop("KeyError", syn_placeholder, no_locals)
    ELSE IF The(alignSetup.base_pv) \notin DictKeys(rawData)
    THEN stop("KeyError", syn_placeholder, no_locals)
    ELSE IF "secs" \notin DictValue(rawData, The(alignSetup.base_pv)).columns
    THEN stop("KeyError", syn_placeholder, no_locals)      \* line 312
    ELSE IF Len(DictValue(rawData, The(alignSetup.base_pv)).rows) = 0
    THEN stop("IndexError", syn_placeholder, no_locals)    \* line 315: iloc[0]
    ELSE
    LET ref     == DictValue(rawData, The(alignSetup.base_pv))
        secs    == frame_secs(ref)
        relTime == rel_time(secs)
    IN
    IF ~alignSetup.Trim
    THEN \* diff_idt is never assigned on this branch: line 347 raises
         stop("UnboundLocalError", syn_placeholder,
              [idt |-> all_indices(secs), relTime |-> relTime,
               time_cum |-> relTime, secs |-> secs, vals |-> <<>>])
    ELSE
    LET idt == kept_indices(frame_vals(ref), alignSetup.val_range)
    IN
    IF Len(idt) = 0
    THEN \* 'All data are out of range!': the call returns
         stop("none", syn_placeholder,
              [idt |-> idt, relTime |-> relTime, time_cum |-> <<>>, secs |-> secs,
               vals |-> <<>>])
    ELSE
    LET time_cum == time_cum_of(relTime, idt, alignSetup.disTimeAddBack_sec)
        filled   == align_rows(pvNames, 1, rawData, alignSetup, relTime, idt)
        loc      == [idt |-> idt, relTime |-> relTime, time_cum |-> time_cum,
                     secs |-> secs, vals |-> filled.rows]
        partial  == [type |-> "dict", startTime |-> Some(syn_start_time(secs, idt)),
                     relTime |-> time_cum, vals |-> filled.rows,
                     duration_hour |-> None]
    IN
    IF filled.raised # "none" THEN stop(filled.raised, partial, loc)
    ELSE
    LET reSample == resample_axis(time_cum, alignSetup.dtResample_sec)
    IN  [synData  |-> syn_frame(pvNames, reSample,
                                resample_rows(reSample, time_cum, filled.rows),
                                time_cum),
         raised   |-> "none",
         produced |-> TRUE,
         locals   |-> [loc EXCEPT !.time_cum = time_cum]]

\* ---------------------------------------------------------------- __init__
\* Line 35: the signal names stored when the pvNames argument is false.
default_pvNames ==
    <<"GUN:GUNB:100:FWD:PWR", "GUN:GUNB:100:DFACT", "GUN:GUNB:100:REV1:PWR">>

\* Lines 33-35: the stored signal list for a pvNames argument given as a
\* list (a string argument is the list holding it): 'pvNames or [...]'
\* takes the default for the empty list.
init_pvNames(arg) == IF Len(arg) = 0 THEN default_pvNames ELSE arg

\* Lines 37-44: the default alignSetup.
default_alignSetup(names) ==
    [base_id |-> Some(0), base_pv |-> Some(names[1]), val_range |-> <<<<1000, 100000>>>>,
     disTimeAddBack_sec |-> 1, dtResample_sec |-> 1, Trim |-> TRUE]

\* Line 37: 'alignSetup or {...}' for an alignSetup argument that is None
\* or a dict: None and the empty dict are false and give the default, built
\* on the stored signal list.
init_alignSetup(arg, names) ==
    IF arg = None THEN default_alignSetup(names)
    ELSE IF DOMAIN The(arg) = {} THEN default_alignSetup(names)
    ELSE The(arg)

\* timedelta(hours=h)
hours(h) == h * TicksPerHour

\* The signal lists the retriever is constructed with: a single name given
\* as a string (line 34 wraps it in a list), or a list of names.
InitPvNames == {<<"A">>, <<"A", "B">>, <<"A", "A">>}

\* The durations, in hours, the retriever is constructed with; a negative
\* one puts startTime after endTime, 0 leaves startTime None.
InitDurations == {1, -1, 0}

\* The endTime the retriever is constructed with.
InitEndTime == hours(10)

\* ------------------------------------------------------------- set_base_pv
\* Lines 106-112: a tuple or a flat [low, high] pair becomes a list holding
\* that one range.  An argument is [flat |-> TRUE, range |-> <<low, high>>]
\* or [flat |-> FALSE, ranges |-> <<<<low, high>>, ...>>].
val_range_list(arg) == IF arg.flat THEN <<arg.range>> ELSE arg.ranges

\* Python truthiness of an optional string: None and '' are false.
StrTruthy(opt) == opt # None /\ The(opt) # ""

\* Lines 95-104: the exception the argument check raises, or "none".
\* base_pv and base_id may be None; line 95 tests the truth of base_pv, so
\* the empty name goes to the index branch like None.
base_pv_check(names, base_pv, base_id) ==
    IF StrTruthy(base_pv)
    THEN IF The(base_pv) \notin Range(names) THEN "ValueError" ELSE "none"
    ELSE IF base_id # None
    THEN IF The(base_id) < 0 \/ The(base_id) >= Len(names)
         THEN "ValueError" ELSE "none"
    ELSE "ValueError"

\* Lines 114-119: the six entries as stored; base_pv and base_id are the
\* arguments as passed, since lines 98 and 102 follow a raise.
base_pv_setup(base_pv, base_id, val_range, disTimeAddBack_sec, dtResample_sec, Trim) ==
    [base_id |-> base_id, base_pv |-> base_pv,
     val_range |-> val_range_list(val_range),
     disTimeAddBack_sec |-> disTimeAddBack_sec,
     dtResample_sec |-> dtResample_sec, Trim |-> Trim]

\* Lines 114-119: the six assignments self.__alignSetup[key] = ... on the
\* stored dict: the six keys get their new values, any other key stays.
dict_update(d, new) ==
    [k \in DOMAIN d \cup DOMAIN new |-> IF k \in DOMAIN new THEN new[k] ELSE d[k]]

\* d[key] = value on a dict written as a record: a key the dict lacks is
\* added.
setitem(d, key, value) ==
    [k \in DOMAIN d \cup {key} |-> IF k = key THEN value ELSE d[k]]

\* ------------------------------------------------------- __init__, window
\* A server name is the sequence of its characters, so that str.upper()
\* works on it character by character: 'Lcls' is <<"L", "c", "l", "s">>.
\* The characters are the ASCII letters and the two other characters whose
\* upper-case form is made of the letters of 'LCLS' and 'SSRL' only: the
\* long s (U+017F) and the sharp s (U+00DF), written by their code points.
LowerCase ==
    <<"a", "b", "c", "d", "e", "f", "g", "h", "i", "j", "k", "l", "m",
      "n", "o", "p", "q", "r", "s", "t", "u", "v", "w", "x", "y", "z">>
UpperCase ==
    <<"A", "B", "C", "D", "E", "F", "G", "H", "I", "J", "K", "L", "M",
      "N", "O", "P", "Q", "R", "S", "T", "U", "V", "W", "X", "Y", "Z">>
LongS == "U+017F"
SharpS == "U+00DF"

\* The upper-case form of one character, itself a string: a lower-case
\* letter becomes its capital, the long s becomes 'S', the sharp s becomes
\* the two characters 'SS', a capital is kept.
upper_char(c) ==
    IF \E i \in DOMAIN LowerCase : LowerCase[i] = c
    THEN <<UpperCase[CHOOSE i \in DOMAIN LowerCase : LowerCase[i] = c]>>
    ELSE IF c = LongS THEN <<"S">>
    ELSE IF c = SharpS THEN <<"S", "S">>
    ELSE <<c>>

\* Line 65: str.upper(), the upper-case forms of the characters joined; the
\* result is longer than the string when it holds a sharp s.
RECURSIVE upper(_)
upper(s) == IF Len(s) = 0 THEN <<>> ELSE upper_char(Head(s)) \o upper(Tail(s))

\* Lines 65-71: the base URL selected by the server name, or the ValueError.
server_url(webServer) ==
    IF upper(webServer) = <<"L", "C", "L", "S">>
    THEN [raised |-> "none",
          url |-> "http://lcls-archapp.slac.stanford.edu/retrieval/data/getData.json?pv="]
    ELSE IF upper(webServer) = <<"S", "S", "R", "L">>
    THEN [raised |-> "none",
          url |-> "http://spear-arch1.slac.stanford.edu/retrieval/data/getData.json?pv="]
    ELSE [raised |-> "ValueError", url |-> ""]

\* Python truthiness of an optional number: None and 0 are false.
NumTruthy(opt) == opt # None /\ The(opt) # 0

\* Lines 46-62 and 73-75: the window the constructor stores for the
\* arguments startTime, endTime and duration_hour (each may be None), or the
\* exception it raises.  A time argument is a timestamp in ticks (any time,
\* the epoch included, is a non-empty string and so is true); a duration is
\* a number of hours.
init_window(startArg, endArg, durArg) ==
    LET fromStart == endArg = None /\ startArg # None /\ NumTruthy(durArg)
        fromEnd   == ~fromStart /\ startArg = None /\ endArg # None /\ NumTruthy(durArg)
        endT   == IF fromStart THEN Some(The(startArg) + hours(The(durArg))) ELSE endArg
        startT == IF fromEnd THEN Some(The(endArg) - hours(The(durArg))) ELSE startArg
    IN  IF /\ startT # None /\ endT # None /\ NumTruthy(durArg)
           /\ The(endT) - The(startT) # hours(The(durArg))
        THEN [raised |-> "ValueError"]
        ELSE IF endT = None
        THEN [raised |-> "TypeError"]   \* line 73: strptime(None, ...)
        ELSE [raised |-> "none", startTime |-> startT, endTime |-> The(endT),
              duration_hour |-> durArg]

\* ------------------------------------------------------------ set_property
\* The attributes hasattr finds under the name-mangled prefix (line 142).
Attributes ==
    {"pvNames", "alignSetup", "webServer", "endTime", "duration_hour",
     "startTime", "rawData", "synData"}

\* Lines 163-166
required_keys ==
    {"base_id", "base_pv", "val_range", "disTimeAddBack_sec", "dtResample_sec", "Trim"}

\* Line 150: value + timedelta(hours=duration_hour)
end_for_start(start, hrs) == start + hours(hrs)

\* start_for_end with the duration added instead of subtracted.
start_for_end_Added(end, hrs) == end + hours(hrs)

\* Lines 153 and 159: value - timedelta(hours=duration_hour)
start_for_end(end, hrs) == end - hours(hrs)

\* The values a property is set to, by their Python type:
\*   [tag |-> "timestr", s |-> string, t |-> ticks]
\*                                     a string that strptime reads with
\*                                     '%m/%d/%Y %H:%M:%S', and the time it
\*                                     reads; two spellings may give one time
\*   [tag |-> "text", s |-> string]    any other string
\*   [tag |-> "num", n |-> hours]      an int or a float
\*   [tag |-> "list", items |-> seq]   a list
\*   [tag |-> "dict", d |-> record]    a dict, its keys the record's fields
\* isinstance(value, str)
is_str(value) == value.tag \in {"text", "timestr"}

\* The string itself, as line 144 stores it: the characters of the value,
\* whatever time they may denote.
str_of(value) == value.s

\* A configuration is the record of the six configured fields.
\* set_one: lines 142-169, set_property(property_name, value) without the
\* keyword arguments.  The result holds the configuration as the call left
\* it and the exception raised ("none" when the call completes).
set_one(cfg, property_name, value) ==
    LET done(c)    == [cfg |-> c, raised |-> "none"]
        stop(c, e) == [cfg |-> c, raised |-> e]
    IN
    IF property_name \notin Attributes THEN stop(cfg, "AttributeError")
    ELSE IF property_name = "pvNames"
    THEN IF is_str(value)
         THEN done([cfg EXCEPT !.pvNames = <<str_of(value)>>])
         ELSE done(cfg)
    ELSE IF property_name \in {"endTime", "startTime"}
    THEN IF value.tag = "text" THEN stop(cfg, "ValueError")        \* strptime
         ELSE IF value.tag # "timestr" THEN stop(cfg, "TypeError") \* strptime
         ELSE IF property_name = "startTime"
         THEN LET c1 == [cfg EXCEPT !.startTime = Some(value.t)]
              IN  IF cfg.duration_hour = None
                  THEN stop(c1, "TypeError")     \* timedelta(hours=None)
                  ELSE done([c1 EXCEPT !.endTime =
                                 end_for_start(value.t, The(cfg.duration_hour))])
         ELSE LET c1 == [cfg EXCEPT !.endTime = value.t]
              IN  IF cfg.duration_hour = None
                  THEN stop(c1, "TypeError")
                  ELSE done([c1 EXCEPT !.startTime =
                                 Some(start_for_end(value.t, The(cfg.duration_hour)))])
    ELSE IF property_name = "duration_hour"
    THEN IF value.tag # "num" THEN stop(cfg, "ValueError")
         ELSE done([cfg EXCEPT !.duration_hour = Some(value.n),
                               !.startTime = Some(start_for_end(cfg.endTime, value.n))])
    ELSE IF property_name = "alignSetup"
    THEN IF value.tag # "dict" THEN stop(cfg, "ValueError")
         ELSE IF ~(required_keys \subseteq DOMAIN value.d) THEN stop(cfg, "ValueError")
         ELSE done([cfg EXCEPT !.alignSetup = value.d])
    ELSE done(cfg)    \* webServer, rawData, synData: no branch stores them

\* Lines 136-137 and 172-173: the entries applied one after the other, in
\* the dict's order, until one raises.
RECURSIVE set_all(_, _, _)
set_all(cfg, entries, i) ==
    IF i > Len(entries) THEN [cfg |-> cfg, raised |-> "none"]
    ELSE LET r == set_one(cfg, entries[i].key, entries[i].value)
         IN  IF r.raised # "none" THEN r ELSE set_all(r.cfg, entries, i + 1)

\* Lines 131-173.  A call is
\*   [form |-> "pair", key, value, kwargs]  set_property(key, value, **kwargs)
\*   [form |-> "dict", entries]             set_property({key: value, ...})
\*   [form |-> "other"]                     any other argument list
\* kwargs and entries are sequences of [key, value] in insertion order.
set_property(cfg, call) ==
    IF call.form = "pair"
    THEN LET r == set_one(cfg, call.key, call.value)
         IN  IF r.raised # "none" THEN r ELSE set_all(r.cfg, call.kwargs, 1)
    ELSE IF call.form = "dict"
    THEN set_all(cfg, call.entries, 1)
    ELSE [cfg |-> cfg, raised |-> "ValueError"]

\* Lines 185-188: get_property(property_name) on the object, the record of
\* its eight attributes: the attribute's value (the stored object itself,
\* not a copy), or AttributeError for a name that is not an attribute.
get_property(obj, property_name) ==
    IF property_name \notin Attributes THEN [raised |-> "AttributeError"]
    ELSE [raised |-> "none", value |-> obj[property_name]]

\* ------------------------------------------------------------------ state
VARIABLES
    pvNames,        \* self.__pvNames
    webServer,      \* self.__webServer
    startTime,      \* self.__startTime (may be None)
    endTime,        \* self.__endTime
    duration_hour,  \* self.__duration_hour (may be None)
    alignSetup,     \* self.__alignSetup
    rawData,        \* self.__rawData
    synData,        \* self.__synData
    pc,             \* "idle", or "fetching" while getHistory awaits its tasks
    caller,         \* the public method that started the batch in progress
    futures,        \* future_to_pv of the last batch: one entry per submitted task
    last,           \* how the last public call ended
    locals          \* the locals of the last alignHistory call

vars == <<pvNames, webServer, startTime, endTime, duration_hour, alignSetup,
          rawData, synData, pc, caller, futures, last, locals>>

config == <<pvNames, webServer, startTime, endTime, duration_hour, alignSetup>>

\* The eight attributes of the object as one record.
Object ==
    [pvNames |-> pvNames, webServer |-> webServer, startTime |-> startTime,
     endTime |-> endTime, duration_hour |-> duration_hour, alignSetup |-> alignSetup,
     rawData |-> rawData, synData |-> synData]

LCLS == "http://lcls-archapp.slac.stanford.edu/retrieval/data/getData.json?pv="
SSRL == "http://spear-arch1.slac.stanford.edu/retrieval/data/getData.json?pv="

\* The arguments set_base_pv is called with.
BasePvArgs == {Some("A"), Some("B")}
ValRangeArgs == {[flat |-> TRUE, range |-> <<10, 5000>>],
                 [flat |-> FALSE, ranges |-> <<<<0, 0>>, <<2000, 3000>>>>]}
BridgeArgs == {0, 2}
ResampleArgs == {2}

\* DataRetriever(pvNames=names, endTime=InitEndTime, duration_hour=dur,
\* alignSetup=setup): lines 33-44 take the given pvNames and alignSetup or
\* their defaults, lines 51-54 derive startTime when duration_hour is true
\* (0 is not, and leaves startTime None), lines 65-77 store the fields.
Constructed(names, setup, dur) ==
    LET win == init_window(None, Some(InitEndTime), Some(dur))
    IN
    /\ win.raised = "none"
    /\ pvNames = init_pvNames(names)
    /\ webServer = LCLS
    /\ endTime = win.endTime
    /\ duration_hour = win.duration_hour
    /\ startTime = win.startTime
    /\ alignSetup = init_alignSetup(setup, init_pvNames(names))
    /\ rawData = ListOf(<<>>)
    /\ synData = ListOf(<<>>)
    /\ pc = "idle"
    /\ caller = "none"
    /\ futures = <<>>
    /\ last = [op |-> "__init__", raised |-> "none", produced |-> FALSE]
    /\ locals = no_locals

\* Constructed with the default alignSetup.
Init == \E names \in InitPvNames, dur \in InitDurations : Constructed(names, None, dur)

\* Constructed with a single signal and the default alignSetup.
InitSingle == Constructed(<<"A">>, None, 1)

\* Constructed with two signals and the default alignSetup.
InitPair == Constructed(<<"A", "B">>, None, 1)

\* ---------------------------------------------------------------- actions
Ended(op, raised, produced) == [op |-> op, raised |-> raised, produced |-> produced]

\* set_base_pv(base_pv, val_range=..., disTimeAddBack_sec=..., dtResample_sec=...,
\* Trim=...), base_id left at its default 0.
SetBasePv(base_pv, val_range, bridge, dt, trim) ==
    /\ pc = "idle"
    /\ LET err == base_pv_check(pvNames, base_pv, Some(0))
       IN  /\ last' = Ended("set_base_pv", err, FALSE)
           /\ alignSetup' = IF err # "none" THEN alignSetup
                            ELSE dict_update(alignSetup,
                                             base_pv_setup(base_pv, Some(0), val_range,
                                                           bridge, dt, trim))
    /\ UNCHANGED <<pvNames, webServer, startTime, endTime, duration_hour,
                   rawData, synData, pc, caller, futures, locals>>

\* Lines 203-213: getHistory up to the submission of the fetch tasks.
\* Line 203 raises when duration_hour is None; with startTime None every
\* task raises at line 246 and line 216 re-raises it.
submit(op) ==
    IF duration_hour = None
    THEN /\ last' = Ended(op, "TypeError", FALSE)
         /\ UNCHANGED <<rawData, pc, caller, futures>>
    ELSE IF startTime = None
    THEN /\ last' = Ended(op, "AttributeError", FALSE)
         /\ rawData' = ListOf(<<>>)
         /\ UNCHANGED <<pc, caller, futures>>
    ELSE /\ rawData' = ListOf(<<>>)
         /\ futures' = [i \in DOMAIN pvNames |->
                           [pv |-> pvNames[i], done |-> FALSE, resp |-> Fail,
                            data |-> EmptyFrame, error |-> FALSE]]
         /\ pc' = "fetching"
         /\ caller' = op
         /\ UNCHANGED last

GetHistoryCall ==
    /\ pc = "idle"
    /\ submit("getHistory")
    /\ UNCHANGED <<config, synData, locals>>

\* Samples the archive has returned so far in the batch in progress.
RECURSIVE SamplesServed(_, _)
SamplesServed(fs, i) ==
    IF i > Len(fs) THEN 0
    ELSE (IF fs[i].done THEN Len(fs[i].resp.data) ELSE 0) + SamplesServed(fs, i + 1)

\* Lines 214-217: one fetch task completes, as_completed yields it and its
\* data is appended to the list, whatever its place in pvNames.
FetchTaskDone(i, resp, result) ==
    /\ pc = "fetching"
    /\ i \in DOMAIN futures
    /\ ~futures[i].done
    /\ futures' = [futures EXCEPT ![i] = [pv |-> futures[i].pv, done |-> TRUE,
                                           resp |-> resp, data |-> result.data,
                                           error |-> result.error]]
    /\ rawData' = ListOf(Append(rawData.items, result.data))
    /\ UNCHANGED <<config, synData, pc, caller, last, locals>>

\* Lines 310-396 applied to the object: stores synData, records the outcome.
align(raw) ==
    LET r == align_body(pvNames, raw, alignSetup)
    IN  /\ synData' = r.synData
        /\ locals' = r.locals
        /\ last' = Ended("alignHistory", r.raised, r.produced)

\* Lines 230-231: every task has completed; the list becomes the dict, and
\* getHistory returns (to alignHistory, when that is what called it).
GetHistoryReturn ==
    /\ pc = "fetching"
    /\ \A i \in DOMAIN futures : futures[i].done
    /\ rawData' = zip_frames(pvNames, rawData.items)
    /\ pc' = "idle"
    /\ caller' = "none"
    /\ IF caller = "alignHistory"
       THEN align(rawData')
       ELSE /\ last' = Ended("getHistory", "none", FALSE)
            /\ UNCHANGED <<synData, locals>>
    /\ UNCHANGED <<config, futures>>

\* alignHistory(getHistory=flag): lines 306-308 fetch first when there is no
\* raw data; otherwise the alignment runs on the stored raw data.
AlignHistoryCall(flag) ==
    /\ pc = "idle"
    /\ IF flag /\ ~Truthy(rawData)
       THEN /\ submit("alignHistory")
            /\ UNCHANGED <<synData, locals>>
       ELSE /\ align(rawData)
            /\ UNCHANGED <<rawData, pc, caller, futures>>
    /\ UNCHANGED config

\* getHistory called on a retriever that holds no raw data yet.
FirstGetHistoryCall ==
    /\ ~Truthy(rawData)
    /\ GetHistoryCall

\* d = get_property('alignSetup'); d[key] = value, as src/test.py does:
\* get_property hands out the stored dict, so the assignment changes the
\* object's alignSetup with none of set_base_pv's checks.
AssignAlignSetupItem(key, value) ==
    /\ pc = "idle"
    /\ LET got == get_property(Object, "alignSetup")
       IN  /\ got.raised = "none"
           /\ alignSetup' = setitem(got.value, key, value)
    /\ last' = Ended("get_property", "none", FALSE)
    /\ UNCHANGED <<pvNames, webServer, startTime, endTime, duration_hour,
                   rawData, synData, pc, caller, futures, locals>>

SetBasePvStep ==
    \E base_pv \in BasePvArgs, val_range \in ValRangeArgs,
       bridge \in BridgeArgs, dt \in ResampleArgs, trim \in BOOLEAN :
       SetBasePv(base_pv, val_range, bridge, dt, trim)

FetchTaskStep ==
    \E i \in DOMAIN futures :
       \E resp \in Responses(The(startTime), endTime,
                             MaxSamples - SamplesServed(futures, 1)) :
          \E result \in get_history(resp, The(startTime), endTime) :
             FetchTaskDone(i, resp, result)

AlignHistoryStep == \E flag \in BOOLEAN : AlignHistoryCall(flag)

\* d = get_property('alignSetup'); d['note'] = 'A', a key the dict lacks
\* until then.
AssignNoteStep == AssignAlignSetupItem("note", Some("A"))

\* Every call, in any order.
Next ==
    \/ SetBasePvStep
    \/ AssignNoteStep
    \/ GetHistoryCall
    \/ FetchTaskStep
    \/ GetHistoryReturn
    \/ AlignHistoryStep

Spec == Init /\ [][Next]_vars

\* Retrieval alone: getHistory called any number of times.
NextFetch ==
    \/ GetHistoryCall
    \/ FetchTaskStep
    \/ GetHistoryReturn

SpecFetch == Init /\ [][NextFetch]_vars

\* A single-signal retriever that is reconfigured and aligned any number
\* of times over the data of one batch.
NextAlign ==
    \/ SetBasePvStep
    \/ FirstGetHistoryCall
    \/ FetchTaskStep
    \/ GetHistoryReturn
    \/ AlignHistoryStep

SpecAlign == InitSingle /\ [][NextAlign]_vars

\* A two-signal retriever with the default alignSetup, aligned over the
\* data of one batch.
NextPartial ==
    \/ FirstGetHistoryCall
    \/ FetchTaskStep
    \/ GetHistoryReturn
    \/ AlignHistoryStep

SpecPartial == InitPair /\ [][NextPartial]_vars

\* ------------------------------------------------- configuration calls
\* The six configured fields as one record.
Config ==
    [pvNames |-> pvNames, webServer |-> webServer, startTime |-> startTime,
     endTime |-> endTime, duration_hour |-> duration_hour, alignSetup |-> alignSetup]

\* The (startTime, endTime, duration_hour) arguments a retriever is
\* constructed with: each pair of the three with the third None, and all three.
WindowArgs ==
    {[startTime |-> None, endTime |-> Some(hours(10)), duration_hour |-> Some(1)],
     [startTime |-> Some(hours(9)), endTime |-> None, duration_hour |-> Some(1)],
     [startTime |-> Some(hours(9)), endTime |-> Some(hours(10)), duration_hour |-> None],
     [startTime |-> Some(hours(8)), endTime |-> Some(hours(10)), duration_hour |-> Some(2)]}

\* The webServer arguments a retriever is constructed with.
ServerArgs ==
    {<<"L", "C", "L", "S">>, <<"L", "c", "l", "s">>, <<"s", "S", "r", "L">>,
     <<"l", "c", "l", LongS>>, <<SharpS, "r", "l">>,
     <<"X", "Y", "Z">>, <<"x", "y", "z">>}

\* DataRetriever(pvNames=names, webServer=server, startTime=..., endTime=...,
\* duration_hour=...): the object exists when no line of __init__ raises.
ConstructedWith(names, server, w) ==
    LET win == init_window(w.startTime, w.endTime, w.duration_hour)
        url == server_url(server)
    IN  /\ win.raised = "none"
        /\ url.raised = "none"
        /\ pvNames = init_pvNames(names)
        /\ webServer = url.url
        /\ endTime = win.endTime
        /\ duration_hour = win.duration_hour
        /\ startTime = win.startTime
        /\ alignSetup = init_alignSetup(None, init_pvNames(names))
        /\ rawData = ListOf(<<>>)
        /\ synData = ListOf(<<>>)
        /\ pc = "idle"
        /\ caller = "none"
        /\ futures = <<>>
        /\ last = [op |-> "__init__", raised |-> "none", produced |-> FALSE]
        /\ locals = no_locals

\* The pvNames arguments a retriever is constructed with; the empty list
\* stands for the argument left out.
ConfigPvNames == {<<>>, <<"A">>, <<"A", "B">>}

InitConfig ==
    \E names \in ConfigPvNames, server \in ServerArgs, w \in WindowArgs :
       ConstructedWith(names, server, w)

\* The values set_property is called with, per property.
TimeValues == {[tag |-> "timestr", s |-> "01/01/2024 11:00:00", t |-> hours(11)]}
NumValues == {[tag |-> "num", n |-> 1], [tag |-> "num", n |-> 2]}
SetupValues ==
    {[tag |-> "dict",
      d |-> [base_id |-> Some(0), base_pv |-> Some("A"), val_range |-> <<<<0, 5000>>>>,
             disTimeAddBack_sec |-> 2, dtResample_sec |-> 1, Trim |-> TRUE]],
     [tag |-> "dict", d |-> [base_id |-> Some(0), base_pv |-> Some("A")]]}

Entry(key, value) == [key |-> key, value |-> value]

\* The (property, value) pairs: valid ones, and for each validated property
\* an invalid one; 'colour' is not an attribute of the object.
Entries ==
    {Entry("pvNames", [tag |-> "text", s |-> "B"]),
     Entry("pvNames", [tag |-> "timestr", s |-> "1/1/2024 11:00:00", t |-> hours(11)]),
     Entry("pvNames", [tag |-> "list", items |-> <<"A", "B">>]),
     Entry("webServer", [tag |-> "text", s |-> "SSRL"]),
     Entry("webServer", [tag |-> "text", s |-> "XYZ"]),
     Entry("startTime", [tag |-> "text", s |-> "soon"]),
     Entry("duration_hour", [tag |-> "text", s |-> "2"]),
     Entry("colour", [tag |-> "text", s |-> "red"])}
    \cup {Entry("startTime", v) : v \in TimeValues}
    \cup {Entry("endTime", v) : v \in TimeValues}
    \cup {Entry("duration_hour", v) : v \in NumValues}
    \cup {Entry("alignSetup", v) : v \in SetupValues}

\* set_property(key, value), set_property(key, value, duration_hour=...),
\* set_property({k1: v1, k2: v2}) with two different keys, and
\* set_property() with no argument.
PropertyCalls ==
    {[form |-> "pair", key |-> e.key, value |-> e.value, kwargs |-> <<>>] : e \in Entries}
    \cup {[form |-> "pair", key |-> e.key, value |-> e.value, kwargs |-> <<k>>]
            : e \in Entries, k \in {Entry("duration_hour", [tag |-> "num", n |-> 2])}}
    \cup {[form |-> "dict", entries |-> <<e1, e2>>]
            : <<e1, e2>> \in {p \in Entries \X Entries : p[1].key # p[2].key}}
    \cup {[form |-> "other"]}

\* set_property(...) on the object: the fields are left as the call left
\* them, also when it raised.
SetProperty(call) ==
    /\ pc = "idle"
    /\ LET r == set_property(Config, call)
       IN  /\ pvNames' = r.cfg.pvNames
           /\ webServer' = r.cfg.webServer
           /\ startTime' = r.cfg.startTime
           /\ endTime' = r.cfg.endTime
           /\ duration_hour' = r.cfg.duration_hour
           /\ alignSetup' = r.cfg.alignSetup
           /\ last' = Ended("set_property", r.raised, FALSE)
    /\ UNCHANGED <<rawData, synData, pc, caller, futures, locals>>

\* The base_pv and base_id arguments set_base_pv is called with.
BaseNameArgs == {None, Some(""), Some("A"), Some("B")}
BaseIdArgs == {None, Some(-1), Some(0), Some(1)}

\* set_base_pv(base_pv, base_id), the other arguments at their defaults.
SetBasePvId(base_pv, base_id) ==
    /\ pc = "idle"
    /\ LET err == base_pv_check(pvNames, base_pv, base_id)
       IN  /\ last' = Ended("set_base_pv", err, FALSE)
           /\ alignSetup' = IF err # "none" THEN alignSetup
                            ELSE dict_update(alignSetup,
                                             base_pv_setup(base_pv, base_id,
                                                           [flat |-> FALSE,
                                                            ranges |-> <<<<1000, 100000>>>>],
                                                           1, 1, TRUE))
    /\ UNCHANGED <<pvNames, webServer, startTime, endTime, duration_hour,
                   rawData, synData, pc, caller, futures, locals>>

SetPropertyStep == \E call \in PropertyCalls : SetProperty(call)

\* d['base_pv'] = name
AssignAlignSetupItemStep ==
    \E value \in {Some("A"), Some("B")} : AssignAlignSetupItem("base_pv", value)

SetBasePvIdStep ==
    \E base_pv \in BaseNameArgs, base_id \in BaseIdArgs : SetBasePvId(base_pv, base_id)

\* A retriever constructed in any of the ways above and then reconfigured
\* any number of times.
NextConfig ==
    \/ SetPropertyStep
    \/ SetBasePvIdStep
    \/ AssignAlignSetupItemStep

SpecConfig == InitConfig /\ [][NextConfig]_vars

\* ------------------------------------------- alignment over fetched data
\* The responses the archive gives for the reference signal in the runs
\* below: a sample before the window, one inside it and one after it, each
\* with any value.
ReferenceResponses(start, end) ==
    {[ok |-> TRUE,
      data |-> <<[secs |-> start - 1 - timeDiff_sec, val |-> v[1]],
                 [secs |-> start + 1 - timeDiff_sec, val |-> v[2]],
                 [secs |-> end + 1 - timeDiff_sec, val |-> v[3]]>>]
       : v \in Vals \X Vals \X Vals}

\* DataRetriever(['A', 'B'], endTime=InitEndTime, duration_hour=1) followed
\* by a getHistory() whose tasks completed in the order of pvNames: A got
\* one of ReferenceResponses, B a response of at most MaxSamples samples.
InitFetched ==
    \E respA \in ReferenceResponses(InitEndTime - hours(1), InitEndTime),
       respB \in Responses(InitEndTime - hours(1), InitEndTime, MaxSamples) :
       \E ra \in get_history(respA, InitEndTime - hours(1), InitEndTime),
          rb \in get_history(respB, InitEndTime - hours(1), InitEndTime) :
          /\ pvNames = <<"A", "B">>
          /\ webServer = LCLS
          /\ endTime = InitEndTime
          /\ duration_hour = Some(1)
          /\ startTime = Some(InitEndTime - hours(1))
          /\ alignSetup = default_alignSetup(pvNames)
          /\ futures = <<[pv |-> "A", done |-> TRUE, resp |-> respA,
                          data |-> ra.data, error |-> ra.error],
                         [pv |-> "B", done |-> TRUE, resp |-> respB,
                          data |-> rb.data, error |-> rb.error]>>
          /\ rawData = zip_frames(pvNames, <<ra.data, rb.data>>)
          /\ synData = ListOf(<<>>)
          /\ pc = "idle"
          /\ caller = "none"
          /\ last = Ended("getHistory", "none", FALSE)
          /\ locals = no_locals

\* The set_property calls that move the window or replace the signal list.
RewindowCalls ==
    {[form |-> "pair", key |-> e.key, value |-> e.value, kwargs |-> <<>>]
       : e \in {Entry("pvNames", [tag |-> "text", s |-> "B"])}
               \cup {Entry("endTime", v) : v \in TimeValues}
               \cup {Entry("duration_hour", v) : v \in NumValues}}

RewindowStep == \E call \in RewindowCalls : SetProperty(call)

\* A retriever that has fetched its two signals and is then re-windowed
\* and aligned any number of times.
NextRealign ==
    \/ RewindowStep
    \/ AlignHistoryStep

SpecRealign == InitFetched /\ [][NextRealign]_vars

\* ------------------------------------------------------------------ claims
\* getHistory has returned and its result is stored.
HistoryStored == pc = "idle" /\ last.op = "getHistory" /\ last.raised = "none"

\* C1: after getHistory completes, the entry stored under each configured
\* signal holds the data returned by that signal's own fetch task, whatever
\* the order in which the tasks completed.
C1_EntryHoldsOwnFetch ==
    HistoryStored =>
        \A i \in DOMAIN futures :
            /\ futures[i].pv \in DictKeys(rawData)
            /\ DictValue(rawData, futures[i].pv) = futures[i].data

\* C2: a batch of N signals of which M fetches fail still returns without
\* raising and stores a raw dataset with exactly M empty entries (entries
\* without samples) and N - M populated ones, whatever the completion order.
C2_EmptyEntriesCountFailures ==
    (pc = "idle" /\ last.op = "getHistory") =>
        /\ last.raised = "none"
        /\ rawData.type = "dict"
        /\ Cardinality({i \in DOMAIN rawData.items :
                            Len(rawData.items[i].value.rows) = 0})
             = Cardinality({i \in DOMAIN futures : futures[i].error})
        /\ Cardinality({i \in DOMAIN rawData.items :
                            Len(rawData.items[i].value.rows) > 0})
             = Len(pvNames) - Cardinality({i \in DOMAIN futures : futures[i].error})

\* The value the claim gives the sample added at window.start: that of the
\* last returned sample at or before it, or the earliest returned value.
ClaimedStartVal(secs, vals, start) ==
    IF \E i \in DOMAIN secs : secs[i] <= start
    THEN vals[CHOOSE i \in DOMAIN secs :
                 /\ secs[i] <= start
                 /\ \A k \in DOMAIN secs : secs[k] <= start => k <= i]
    ELSE vals[1]

\* The value the claim gives the sample added at window.end: that of the
\* first returned sample at or after it, or the latest returned value.
ClaimedEndVal(secs, vals, end) ==
    IF \E i \in DOMAIN secs : secs[i] >= end
    THEN vals[CHOOSE i \in DOMAIN secs :
                 /\ secs[i] >= end
                 /\ \A k \in DOMAIN secs : secs[k] >= end => k >= i]
    ELSE vals[Len(vals)]

\* C9: in a successful fetch the sample synthesized at window.start carries
\* the value of the last returned sample at or before window.start (else
\* the earliest value), and the one at window.end the value of the first
\* returned sample at or after window.end (else the latest value), also
\* when a returned sample lies exactly on a window bound.
C9_BoundaryValues ==
    \A i \in DOMAIN futures :
        (futures[i].done /\ ~futures[i].error) =>
            LET secs == resp_secs(futures[i].resp)
                vals == resp_vals(futures[i].resp)
            IN  /\ start_val(secs, vals, The(startTime))
                     = ClaimedStartVal(secs, vals, The(startTime))
                /\ end_val(secs, vals, endTime)
                     = ClaimedEndVal(secs, vals, endTime)

\* C10: the samples stored for a successfully fetched signal have strictly
\* ascending timestamps, none repeated, all inside [window.start, window.end].
C10_StrictlyAscendingInWindow ==
    \A i \in DOMAIN futures :
        (futures[i].done /\ ~futures[i].error) =>
            LET data == futures[i].data.rows
            IN  /\ \A k \in 1..(Len(data) - 1) : data[k].secs < data[k + 1].secs
                /\ \A k \in DOMAIN data :
                       data[k].secs >= The(startTime) /\ data[k].secs <= endTime

\* alignHistory was the last call and it has ended.
AlignEnded == pc = "idle" /\ last.op = "alignHistory"

\* The reference signal named by alignSetup has samples in the raw data.
RefHasSamples ==
    /\ rawData.type = "dict"
    /\ alignSetup.base_pv # None
    /\ The(alignSetup.base_pv) \in DictKeys(rawData)
    /\ Len(DictValue(rawData, The(alignSetup.base_pv)).rows) > 0

\* The rows of the reference signal's frame.
RefFrame == DictValue(rawData, The(alignSetup.base_pv)).rows

\* The positions of the reference signal whose value lies inside some
\* configured range, bounds included.
RefKept ==
    {i \in DOMAIN RefFrame :
        \E r \in DOMAIN alignSetup.val_range :
            /\ alignSetup.val_range[r][1] <= RefFrame[i].vals
            /\ RefFrame[i].vals <= alignSetup.val_range[r][2]}

\* C3: with the trim flag false and a reference signal that has samples,
\* alignHistory completes and produces an AlignedDataset that keeps every
\* index of the reference in order, on the reference's relative time axis.
C3_NoTrimKeepsAll ==
    (AlignEnded /\ RefHasSamples /\ ~alignSetup.Trim) =>
        /\ last.raised = "none"
        /\ last.produced
        /\ synData.type = "DataFrame"
        /\ locals.idt = [i \in DOMAIN RefFrame |-> i]
        /\ locals.time_cum = [i \in DOMAIN RefFrame |->
                                 RefFrame[i].secs - RefFrame[1].secs]

\* A step that is a whole alignHistory call on stored raw data in which no
\* reference value lies inside any configured range.
OutOfRangeCall ==
    /\ pc = "idle" /\ pc' = "idle"
    /\ last'.op = "alignHistory"
    /\ RefHasSamples
    /\ alignSetup.Trim
    /\ RefKept = {}

\* C4 as stated: with trim enabled and no reference value inside any range,
\* alignHistory fails with an error that reaches the caller, produces no
\* AlignedDataset, and leaves the stored state as it was before the call.
C4_FailsWithoutMutation ==
    [][OutOfRangeCall =>
          /\ last'.raised # "none"
          /\ ~last'.produced
          /\ synData' = synData
          /\ rawData' = rawData]_vars

\* C5: after a getHistory in which the reference signal was fetched and the
\* fetch of another signal failed, alignHistory (trim enabled, some
\* reference value in range) still completes and produces an AlignedDataset
\* with one row per configured signal and one column per resample point.
C5_PartialDatasetAligns ==
    (/\ AlignEnded
     /\ RefHasSamples
     /\ alignSetup.Trim
     /\ RefKept # {}
     /\ \E i \in DOMAIN rawData.items :
            /\ Some(rawData.items[i].key) # alignSetup.base_pv
            /\ rawData.items[i].value = EmptyFrame) =>
        /\ last.raised = "none"
        /\ last.produced
        /\ synData.type = "DataFrame"
        /\ Len(synData.vals) = Len(pvNames)
        /\ \A i \in DOMAIN synData.vals :
               Len(synData.vals[i]) = Len(synData.index)

\* alignHistory with trim enabled got as far as the cumulative time axis.
AxisBuilt ==
    /\ AlignEnded
    /\ RefHasSamples
    /\ alignSetup.Trim
    /\ RefKept # {}

\* C6: whenever the kept-index set is non-empty, the bridged cumulative
\* time axis is strictly increasing.
C6_AxisStrictlyIncreasing ==
    AxisBuilt =>
        \A k \in 1..(Len(locals.time_cum) - 1) :
            locals.time_cum[k] < locals.time_cum[k + 1]

\* C7: with trim enabled the cumulative time axis has one point per kept
\* reference sample, starts at 0, and the step between two consecutive kept
\* samples is the bridge duration when they are not adjacent in the
\* reference signal and their timestamp difference when they are.
C7_BridgedAxis ==
    AxisBuilt =>
        /\ Len(locals.idt) = Cardinality(RefKept)
        /\ Range(locals.idt) = RefKept
        /\ \A k \in 1..(Len(locals.idt) - 1) : locals.idt[k] < locals.idt[k + 1]
        /\ Len(locals.time_cum) = Cardinality(RefKept)
        /\ locals.time_cum[1] = 0
        /\ \A k \in 2..Len(locals.idt) :
               locals.time_cum[k] - locals.time_cum[k - 1]
                 = IF locals.idt[k] # locals.idt[k - 1] + 1
                   THEN alignSetup.disTimeAddBack_sec
                   ELSE RefFrame[locals.idt[k]].secs - RefFrame[locals.idt[k - 1]].secs

\* An alignment with a trimmed gap whose elapsed time differs from the
\* bridge duration, followed by two kept samples adjacent in the reference.
C7_Witness ==
    /\ AxisBuilt
    /\ last.produced
    /\ alignSetup.disTimeAddBack_sec > 0
    /\ \E k \in 2..Len(locals.idt) :
           /\ locals.idt[k] # locals.idt[k - 1] + 1
           /\ RefFrame[locals.idt[k]].secs - RefFrame[locals.idt[k - 1]].secs
                # alignSetup.disTimeAddBack_sec
    /\ \E k \in 2..Len(locals.idt) :
           /\ locals.idt[k] = locals.idt[k - 1] + 1
           /\ RefFrame[locals.idt[k]].secs > RefFrame[locals.idt[k - 1]].secs

\* alignHistory has stored its DataFrame.
Resampled == AlignEnded /\ last.produced /\ synData.type = "DataFrame"

AxisSpan == locals.time_cum[Len(locals.time_cum)] - locals.time_cum[1]

\* The grid starts at the first axis point and has constant spacing.
UniformGrid ==
    /\ Len(synData.index) > 0 => synData.index[1] = locals.time_cum[1]
    /\ \A k \in 1..(Len(synData.index) - 1) :
           synData.index[k + 1] - synData.index[k] = alignSetup.dtResample_sec

\* C8 as stated: the resample grid starts at cumulativeTime[0], has constant
\* spacing dtResample and exactly floor((last - first) / dtResample) points.
C8_GridLengthFloor ==
    Resampled =>
        /\ UniformGrid
        /\ Len(synData.index) = AxisSpan \div alignSetup.dtResample_sec

\* C8 as the code has it: the grid starts at cumulativeTime[0], has constant
\* spacing dtResample and exactly ceil((last - first) / dtResample) points
\* (none when that is not positive), every one of them below
\* cumulativeTime[last].
C8_GridLengthCeil ==
    Resampled =>
        /\ UniformGrid
        /\ Len(synData.index)
             = Max2(0, -((-AxisSpan) \div alignSetup.dtResample_sec))
        /\ \A k \in DOMAIN synData.index :
               synData.index[k] < locals.time_cum[Len(locals.time_cum)]

\* A resampled alignment whose axis span is not a multiple of dtResample,
\* and the grid has several points.
C8_Witness ==
    /\ Resampled
    /\ AxisSpan % alignSetup.dtResample_sec # 0
    /\ Len(synData.index) >= 2

\* ------------------------------------------------ the configured window
\* The three window quantities are defined and end - start = duration.
WindowConsistent ==
    /\ startTime # None
    /\ duration_hour # None
    /\ endTime - The(startTime) = hours(The(duration_hour))

\* C11: a retriever constructed from any two of startTime, endTime and
\* duration_hour has all three window quantities defined, with
\* end - start = duration.
C11_TwoOfThreeGiveWindow == last.op = "__init__" => WindowConsistent

\* set_property(key, value)
PairCall(key, value) == [form |-> "pair", key |-> key, value |-> value, kwargs |-> <<>>]

\* A step that is a completed set_property(key, value).
Sets(key, value) == SetProperty(PairCall(key, value)) /\ last'.raised = "none"

\* C12: every completed set_property on startTime, endTime or duration_hour
\* leaves end - start = duration: setting the start moves the end to
\* start + duration, setting the end moves the start to end - duration,
\* setting the duration moves the start to end - duration and keeps the end.
C12_SettersKeepWindow ==
    /\ [](duration_hour # None => WindowConsistent)
    /\ [][/\ \A v \in TimeValues :
               /\ Sets("startTime", v) =>
                     /\ startTime' = Some(v.t)
                     /\ duration_hour' = duration_hour
                     /\ endTime' = v.t + hours(The(duration_hour))
               /\ Sets("endTime", v) =>
                     /\ endTime' = v.t
                     /\ duration_hour' = duration_hour
                     /\ startTime' = Some(v.t - hours(The(duration_hour)))
          /\ \A v \in NumValues :
               Sets("duration_hour", v) =>
                  /\ duration_hour' = Some(v.n)
                  /\ endTime' = endTime
                  /\ startTime' = Some(endTime - hours(v.n))]_vars

\* The window has been moved by set_property: neither the end nor the
\* duration is one a constructor call above stores.
C12_Witness ==
    /\ last.op = "set_property"
    /\ last.raised = "none"
    /\ endTime = hours(11)
    /\ duration_hour = Some(2)
    /\ startTime = Some(hours(9))

\* ------------------------------------------------------- the endpoint
\* C13: set_property('webServer', v) raises and leaves the endpoint alone
\* when v is not a known server, and makes the endpoint the one of v when
\* it is.
C13_EndpointValidated ==
    [][/\ SetProperty(PairCall("webServer", [tag |-> "text", s |-> "XYZ"])) =>
             /\ last'.raised \in {"ValueError", "AttributeError"}
             /\ webServer' = webServer
       /\ SetProperty(PairCall("webServer", [tag |-> "text", s |-> "SSRL"])) =>
             /\ get_property(Object', "webServer").raised = "none"
             /\ get_property(Object', "webServer").value = SSRL]_vars

\* ------------------------------------------------- failed set_property
\* C14: a set_property call that raises a configuration error leaves the
\* whole configuration as it was before the call.
C14_FailedSetLeavesConfig ==
    [][(last'.op = "set_property" /\ last'.raised \in {"ValueError", "AttributeError"})
         => Config' = Config]_vars

\* --------------------------------------------------------- set_base_pv
\* C15: set_base_pv raises and leaves alignSetup alone when the name is not
\* a configured signal, and when the index is outside the index range of
\* the signal list, with or without a name.
C15_BadReferenceRejected ==
    [][\A base_pv \in BaseNameArgs, base_id \in BaseIdArgs :
          (/\ SetBasePvId(base_pv, base_id)
           /\ \/ (base_pv # None /\ The(base_pv) \notin Range(pvNames))
              \/ (base_id # None /\ (The(base_id) < 0 \/ The(base_id) >= Len(pvNames))))
          => (last'.raised = "ValueError" /\ alignSetup' = alignSetup)]_vars

\* C17: after a completed set_base_pv or set_property the reference name of
\* alignSetup is a configured signal and the reference index is the
\* position of that name in the signal list.
C17_ReferenceConsistent ==
    (last.op \in {"set_base_pv", "set_property"} /\ last.raised = "none")
    => /\ alignSetup.base_pv # None
       /\ alignSetup.base_id # None
       /\ The(alignSetup.base_pv) \in Range(pvNames)
       /\ The(alignSetup.base_id) \in 0..(Len(pvNames) - 1)
       /\ pvNames[The(alignSetup.base_id) + 1] = The(alignSetup.base_pv)

\* ----------------------------------------------- the aligned value matrix
\* v is the linear interpolation at x of the points (xp[j], fp[j]), xp
\* ascending: the no-value marker outside [xp[1], xp[last]], the value of a
\* sample at x, or the point at x of the segment between the two samples
\* around x.
LinearlyInterpolated(v, x, xp, fp) ==
    IF x < xp[1] \/ x > xp[Len(xp)] THEN v = NaN
    ELSE \E j \in DOMAIN xp :
            \/ xp[j] = x /\ v = fp[j]
            \/ /\ j < Len(xp)
               /\ xp[j] < x
               /\ x < xp[j + 1]
               /\ v = RAdd(fp[j], RScale(RSub(fp[j + 1], fp[j]),
                                         x - xp[j], xp[j + 1] - xp[j]))

\* alignHistory has produced a dataset with trim enabled.
AlignedWithTrim == AlignEnded /\ last.produced /\ alignSetup.Trim

\* The rows of the value matrix that belong to a signal other than the
\* reference which has at least two raw samples.
InterpolatedRows ==
    {i \in DOMAIN pvNames :
        /\ Some(pvNames[i]) # alignSetup.base_pv
        /\ Len(DictValue(rawData, pvNames[i]).rows) >= 2}

\* Every value of the interpolated rows is the signal's linear
\* interpolation, on its own relative time, at the position at(k).
InterpolatedAt(at(_)) ==
    \A i \in InterpolatedRows :
       LET raw == DictValue(rawData, pvNames[i])
       IN  \A k \in DOMAIN locals.idt :
              LinearlyInterpolated(locals.vals[i][k], at(k),
                                   rel_time(frame_secs(raw)),
                                   [m \in DOMAIN raw.rows |-> RInt(raw.rows[m].vals)])

\* C16 as stated: the aligned value at kept position k is the signal's
\* interpolation at cumulativeTime[k], the bridged axis.
C16_InterpolatedAtBridgedTime ==
    AlignedWithTrim => LET at(k) == locals.time_cum[k] IN InterpolatedAt(at)

\* C16 as the code has it: the aligned value at kept position k is the
\* signal's interpolation at the reference's own relative time of the k-th
\* kept sample, relTime[idt[k]], which leaves the removed gaps in.
C16_InterpolatedAtReferenceTime ==
    AlignedWithTrim => LET at(k) == locals.relTime[locals.idt[k]] IN InterpolatedAt(at)

\* An alignment that removed a gap, so that a kept sample's bridged time
\* differs from its relative time, with an interpolated row whose values
\* differ along the axis.
C16_Witness ==
    /\ AlignedWithTrim
    /\ \E k \in DOMAIN locals.idt : locals.time_cum[k] # locals.relTime[locals.idt[k]]
    /\ \E i \in InterpolatedRows :
          \E k, m \in DOMAIN locals.idt :
             /\ ~IsNaN(locals.vals[i][k])
             /\ ~IsNaN(locals.vals[i][m])
             /\ locals.vals[i][k] # locals.vals[i][m]

\* ------------------------------------------------------ stale raw data
\* The stored raw data is that of a fetch for the configured signals over
\* the configured window: one frame per configured signal, and every frame
\* that has rows runs from the window's start to its end (get_history puts
\* a row on each bound).
RawDataCurrent ==
    /\ rawData.type = "dict"
    /\ DictKeys(rawData) = Range(pvNames)
    /\ startTime # None
    /\ \A pv \in DictKeys(rawData) :
          LET frame == DictValue(rawData, pv)
          IN  Len(frame.rows) > 0 =>
                 /\ frame.rows[1].secs = The(startTime)
                 /\ frame.rows[Len(frame.rows)].secs = endTime

\* C18: whenever alignHistory produces a dataset, the raw data it aligned
\* was fetched for the window and the signal list configured at that call.
C18_AlignsCurrentData == (AlignEnded /\ last.produced) => RawDataCurrent
====
